---- MODULE Spec2Model ----
(***************************************************************************)
(* The shared HTTP client of megabase-nextjs (src/lib/axios.ts), its       *)
(* configuration (src/config/api.ts) and the authentication service that   *)
(* calls it (src/services/authService.ts).                                 *)
(*                                                                         *)
(* JavaScript values are encoded as follows.                               *)
(*   - an optional property is a set: {} when the object has no such       *)
(*     property, {v} when it has it with value v;                          *)
(*   - a string-valued property that may also be undefined or null holds   *)
(*     one of the two reserved strings Undefined and Null;                 *)
(*   - a flag that the code compares with === true holds the JavaScript    *)
(*     literal as a string ("true", "false", "1") or Undefined;            *)
(*   - an object's identity is its oid: the allocation site and the        *)
(*     request it was allocated for.                                       *)
(***************************************************************************)
EXTENDS Integers, FiniteSets, Sequences, TLC

\* ------------------------------------------------------------------ bounds
MaxReq == 2
MaxCalls == 2
MaxTime == 1
MaxLen == 2

Reqs == 1..MaxReq

\* ------------------------------------------------------- JavaScript values
Undefined == "<undefined>"
Null == "<null>"

\* JavaScript truthiness of a string-or-undefined-or-null value
Truthy(v) == v \notin {Undefined, Null, ""}

Has(opt) == opt # {}
The(opt) == CHOOSE v \in opt : TRUE

\* ------------------------------------------------------------ config/api.ts
validateStatus(status) == status >= 200 /\ status < 300

LoginEndpoint == "/auth/login"
RefreshEndpoint == "/auth/refresh"
LogoutEndpoint == "/auth/logout"
CheckAuthEndpoint == "/check-auth"
CitizensEndpoint == "/citizens"
CitizenEndpoint == "/citizens/:id"
CitizenByEmailEndpoint == "/citizens/email/:email"
CitizenByIdentificationEndpoint == "/citizens/identification/:numero"
CitizenByRazonSocialEndpoint == "/citizens/razon-social/:razonSocial"
UsersEndpoint == "/users"

\* ------------------------------------------------------------- input sets
\* The statuses the backend answers with: one inside [200, 300), the first
\* one above it, and one for each branch of the interceptor's switch.
Statuses == {200, 300, 401, 403, 404, 422, 500}

\* Response bodies: response.data. kind "undefined" is an empty body.
NoBody == [kind |-> "undefined", message |-> Undefined, data |-> Undefined]
Body(m, d) == [kind |-> "object", message |-> m, data |-> d]
Bodies ==
    { NoBody,
      Body(Undefined, Undefined),
      Body(Null, Undefined),
      Body("", Undefined),
      Body("invalid credentials", Undefined),
      Body("ok", "authenticated"),
      Body("ok", "anonymous") }

ResponseHeaders == "content-type: application/json"

\* The callers of the shared client: api.* used directly by a page, and the
\* AuthService methods.
Callers == {"api", "login", "logout", "refreshToken", "checkAuth"}

\* The metadata a caller may pass in its per-call config.
NoMeta == {}
Meta(s, d, c) == [startTime |-> s, duration |-> d, customField |-> c]
CallerMetadata == { NoMeta, {Meta(0, {}, {"x"})} }

\* ------------------------------------------------- objects of the transport
\* An Error object. request: the error carries a request object; response:
\* the server's response when one was received.
Err(o, m, req, resp, st, d, api, net) ==
    [oid |-> o, message |-> m, request |-> req, response |-> resp,
     status |-> st, data |-> d, isApiError |-> api, isNetworkError |-> net]

Oid(site, r) == [site |-> site, req |-> r]

Response(r, st, b) ==
    [oid |-> Oid("AxiosResponse", r), status |-> st,
     headers |-> ResponseHeaders, data |-> b]

\* The failures the transport raises (the AxiosError the adapter builds).
\* A status that validateStatus refuses: response and request are both set.
StatusError(r, st, b) ==
    Err(Oid("AxiosError", r),
        "Request failed with status code " \o ToString(st),
        TRUE, {Response(r, st, b)}, {}, {}, Undefined, Undefined)

\* The request left, nothing came back: connection refused, or the
\* configured timeout (API_CONFIG.timeout) ran out.
NoResponseError(r, why) ==
    Err(Oid("AxiosError", r), why, TRUE, {}, {}, {}, Undefined, Undefined)

\* The request never left: neither request nor response.
SetupError(r) ==
    Err(Oid("AxiosError", r), "Invalid URL", FALSE, {}, {}, {},
        Undefined, Undefined)

NoResponseReasons == {"Network Error", "timeout of 10000ms exceeded"}

\* --------------------------------------------------------------- lib/axios
\* data?.message
BodyMessage(data) ==
    IF data.kind = "object" THEN data.message ELSE Undefined

\* Variant: data?.message ?? `HTTP Error ${status}`
ApiErrorMessageNullish(status, data) ==
    IF BodyMessage(data) \notin {Undefined, Null}
    THEN BodyMessage(data)
    ELSE "HTTP Error " \o ToString(status)

\* data?.message || `HTTP Error ${status}`
ApiErrorMessage(status, data) ==
    IF Truthy(BodyMessage(data))
    THEN BodyMessage(data)
    ELSE "HTTP Error " \o ToString(status)

\* Variant: the status is not copied onto the error.
apiErrorNoStatus(r, status, data) ==
    Err(Oid("apiError", r), ApiErrorMessage(status, data), FALSE, {},
        {}, {data}, "true", Undefined)

\* const apiError = new Error(...); status, data, isApiError assigned
apiError(r, status, data) ==
    Err(Oid("apiError", r), ApiErrorMessage(status, data), FALSE, {},
        {status}, {data}, "true", Undefined)

\* The connectivity message, written here without its accents.
ConnectionMessage == "Error de conexion. Verifique su conexion a internet."

\* Variant: a status is set on the network error.
networkErrorWithStatus(r) ==
    Err(Oid("networkError", r), ConnectionMessage, FALSE, {},
        {0}, {}, Undefined, "true")

\* const networkError = new Error(...); isNetworkError assigned
networkError(r) ==
    Err(Oid("networkError", r), ConnectionMessage, FALSE, {},
        {}, {}, Undefined, "true")

\* The branch of switch (status) that is taken.
StatusBranch(status) ==
    CASE status = 401 -> "401"
      [] status = 403 -> "403"
      [] status = 404 -> "404"
      [] status = 422 -> "422"
      [] status = 500 -> "500"
      [] OTHER -> "default"

\* Variant: the 403 branch dispatches as well.
SwitchDispatchesAnyAuthStatus(status, win) ==
    IF StatusBranch(status) \in {"401", "403"} /\ win THEN 1 ELSE 0

\* The number of 'auth:logout' events the switch dispatches.
SwitchDispatches(status, win) ==
    IF StatusBranch(status) = "401" /\ win THEN 1 ELSE 0

\* Variant: error.request is tested before error.response.
ErrorKindRequestFirst(error) ==
    IF error.request THEN "network"
    ELSE IF Has(error.response) THEN "api"
    ELSE "setup"

\* if (error.response) ... else if (error.request) ... else ...
ErrorKind(error) ==
    IF Has(error.response) THEN "api"
    ELSE IF error.request THEN "network"
    ELSE "setup"

\* Variant: the setup error is copied into a new object.
RejectedValueWrapsSetup(r, error) ==
    CASE ErrorKind(error) = "api" ->
            apiError(r, The(error.response).status, The(error.response).data)
      [] ErrorKind(error) = "network" -> networkError(r)
      [] OTHER -> [error EXCEPT !.oid = Oid("configError", r)]

\* The value the response error handler rejects with.
RejectedValue(r, error) ==
    CASE ErrorKind(error) = "api" ->
            apiError(r, The(error.response).status, The(error.response).data)
      [] ErrorKind(error) = "network" -> networkError(r)
      [] OTHER -> error

\* What the response error handler writes to the console.
ErrorConsole(error, dbg) ==
    (IF dbg THEN {"group:API Error"} ELSE {})
    \cup
    (CASE ErrorKind(error) = "api" ->
            {"switch:" \o StatusBranch(The(error.response).status)}
       [] ErrorKind(error) = "network" -> {"error:Network error"}
       [] OTHER -> {"error:Request setup error"})

\* The events the response error handler dispatches on window.
ErrorDispatches(error, win) ==
    IF ErrorKind(error) = "api"
    THEN SwitchDispatches(The(error.response).status, win)
    ELSE 0

\* export const isApiError = (error) => error?.isApiError === true
isApiError(error) ==
    error.kind = "object" /\ error.obj.isApiError = "true"

\* export const isNetworkError = (error) => error?.isNetworkError === true
isNetworkError(error) ==
    error.kind = "object" /\ error.obj.isNetworkError = "true"

\* error?.response?.data?.message
ResponseDataMessage(error) ==
    IF error.kind = "object" /\ Has(error.obj.response)
    THEN BodyMessage(The(error.obj.response).data)
    ELSE Undefined

\* error?.message
OptionalMessage(error) ==
    IF error.kind = "object" THEN error.obj.message ELSE Undefined

FallbackMessage == "Ha ocurrido un error inesperado"

\* Variant: error.message is tried before the server's message.
getErrorMessageOwnFirst(error) ==
    IF isApiError(error) \/ isNetworkError(error) THEN error.obj.message
    ELSE IF Truthy(OptionalMessage(error)) THEN OptionalMessage(error)
    ELSE IF Truthy(ResponseDataMessage(error)) THEN ResponseDataMessage(error)
    ELSE FallbackMessage

\* export const getErrorMessage = (error) => ...
getErrorMessage(error) ==
    IF isApiError(error) \/ isNetworkError(error) THEN error.obj.message
    ELSE IF Truthy(ResponseDataMessage(error)) THEN ResponseDataMessage(error)
    ELSE IF Truthy(OptionalMessage(error)) THEN OptionalMessage(error)
    ELSE FallbackMessage

\* Variant: the subtraction the other way round.
DurationReversed(metadata, t) ==
    IF Has(metadata) THEN The(metadata).startTime - t ELSE 0

\* const duration = config.metadata ? Date.now() - config.metadata.startTime : 0
Duration(metadata, t) ==
    IF Has(metadata) THEN t - The(metadata).startTime ELSE 0

\* Variant: only the timing fields are written back.
MergedMetadataTimingOnly(m, duration) ==
    Meta(m.startTime, {duration}, {})

\* { startTime, duration, ...otherMetadata }: a key of otherMetadata, spread
\* last, replaces an earlier key of the same name.
MergedMetadata(m, duration) ==
    Meta(m.startTime,
         IF Has(m.duration) THEN m.duration ELSE {duration},
         m.customField)

\* if (isDevelopment() && config.metadata) response.config.metadata = {...}
MetadataAfterResponse(metadata, t, dev) ==
    IF dev /\ Has(metadata)
    THEN {MergedMetadata(The(metadata), Duration(metadata, t))}
    ELSE metadata

\* Variant: a copy without the body is returned.
ResolvedValueUnwrapped(response) ==
    [response EXCEPT !.oid = [@ EXCEPT !.site = "copy"],
                     !.data = NoBody]

\* return response
ResolvedValue(response) == response

\* ------------------------------------------------------------------- state
VARIABLES
    reqs,           \* the calls in flight, by slot
    now,            \* Date.now()
    calls,          \* calls made so far
    logoutEvents,   \* 'auth:logout' events dispatched on window so far
    received401,    \* responses with status 401 received so far
    failedSessionCalls, \* logout/refreshToken calls the client rejected so far
    hasWindow,      \* typeof window !== 'undefined'
    debugEnabled,   \* DEBUG_CONFIG.enabled
    development,    \* isDevelopment()
    arg,            \* the argument handed to the error helpers
    ret,            \* what the error helpers returned for it
    twin,           \* the same calls, run with DEBUG_CONFIG.enabled negated
    twinEvents,     \* 'auth:logout' events dispatched in that run
    guard,          \* the AuthGuard component of the page
    navbar,         \* the AuthenticatedNavbar component
    prepared,       \* a citizen form and the payload prepareCitizenData made
    usersPage,      \* the users page: its filters and the query it sent
    userForm        \* the UserForm component in edit mode

vars == <<reqs, now, calls, logoutEvents, received401,
          failedSessionCalls,
          hasWindow, debugEnabled, development, arg, ret,
          twin, twinEvents, guard, navbar, prepared, usersPage, userForm>>

pages == <<navbar, prepared, usersPage, userForm>>
env == <<hasWindow, debugEnabled, development>>
helpers == <<arg, ret>>
counters == <<calls, logoutEvents, received401, failedSessionCalls>>

Config(method, url, metadata) ==
    [method |-> method, url |-> url, metadata |-> metadata]

NoResult == [kind |-> "none", body |-> {}, payload |-> Undefined, error |-> {}]
Returned(b) == [NoResult EXCEPT !.kind = "returned", !.body = {b}]
ReturnedPayload(p) == [NoResult EXCEPT !.kind = "returned", !.payload = p]
Thrown(e) == [NoResult EXCEPT !.kind = "thrown", !.error = {e}]

Idle ==
    [pc |-> "idle", caller |-> "api", config |-> Config("get", "", NoMeta),
     error |-> {}, response |-> {}, resolved |-> {}, rejected |-> {},
     raised |-> {}, viaRequestHandler |-> FALSE,
     result |-> NoResult, console |-> {}, dispatched |-> 0, sent |-> 0,
     given |-> NoMeta, stampedAt |-> {}, beforeMerge |-> NoMeta,
     completedAt |-> {}, measured |-> {}, settles |-> 0, asked |-> <<>>]

\* ------------------------------------------------ components/AuthGuard.tsx
\* setTimeout delays of the redirect effect.
UnauthenticatedDelay == 100
ErrorDelay == 2000

\* useState<AuthState>('checking'), useState<User | null>(null),
\* useState<string>(''); no timer, no check started yet.
Unmounted ==
    [pc |-> "unmounted", authState |-> "checking", user |-> Null, error |-> "",
     timer |-> {}, scheduled |-> {}, redirected |-> FALSE,
     seen |-> NoResult, answered |-> {}, failure |-> {}]

\* ------------------------------------------------ AuthenticatedNavbar
\* useState(false) for isLoggingOut; the browser is on the authenticated page.
NavbarShown ==
    [pc |-> "shown", isLoggingOut |-> FALSE, location |-> "page",
     seen |-> NoResult]

\* ---------------------------------- services/citizenService, form data
\* Values of a form field: a string (its characters), a number, null, or
\* undefined.
Str(cs) == [type |-> "string", chars |-> cs]
NumberValue == [type |-> "number", chars |-> <<>>]
NullValue == [type |-> "null", chars |-> <<>>]
UndefinedValue == [type |-> "undefined", chars |-> <<>>]

\* A date the Date constructor can parse, and what toISOString gives for it
\* after setUTCHours(12, 0, 0, 0).
DateText == <<"2024-01-05">>
IsoDateText == <<"2024-01-05T12:00:00.000Z">>

RECURSIVE TrimStart(_)
TrimStart(cs) ==
    IF cs # <<>> /\ Head(cs) = " " THEN TrimStart(Tail(cs)) ELSE cs

RECURSIVE TrimEnd(_)
TrimEnd(cs) ==
    IF cs # <<>> /\ cs[Len(cs)] = " "
    THEN TrimEnd(SubSeq(cs, 1, Len(cs) - 1))
    ELSE cs

\* String.prototype.trim
Trim(cs) == TrimEnd(TrimStart(cs))

\* optionalFields.includes(fieldName)
isOptionalField(fieldName) ==
    fieldName \in
        {"nombre", "fecha_nacimiento", "nacionalidad", "estado_civil",
         "genero", "razon_social", "nombre_comercial", "tipo_empresa",
         "representantes_legales", "agente_retencion",
         "contribuyente_especial", "motivo_cancelacion_suspension",
         "convencional"}

\* One pass of the forEach body for a key: the null written for an empty
\* optional field, then the trimmed value written for any string.
CleanedField(key, value) ==
    LET afterEmptyTest ==
            IF value.type = "string" /\ Trim(value.chars) = <<>>
                    /\ isOptionalField(key)
            THEN NullValue
            ELSE value
    IN IF value.type = "string" THEN Str(Trim(value.chars))
       ELSE afterEmptyTest

\* JavaScript truthiness of a field value.
TruthyValue(v) ==
    \/ v.type = "number"
    \/ v.type = "string" /\ v.chars # <<>>

\* The date handling of fecha_nacimiento and the final default ''.
CleanedDate(v) ==
    LET parsed == IF TruthyValue(v) /\ v.type = "string" /\ v.chars = DateText
                  THEN Str(IsoDateText)
                  ELSE v
    IN IF TruthyValue(parsed) THEN parsed ELSE Str(<<>>)

\* prepareCitizenData(data)
prepareCitizenData(data) ==
    [key \in DOMAIN data |->
        IF key = "fecha_nacimiento"
        THEN CleanedDate(CleanedField(key, data[key]))
        ELSE CleanedField(key, data[key])]

NotPrepared == [input |-> <<>>, output |-> <<>>, called |-> FALSE]
UsersPageClosed == [pc |-> "closed"]
UserFormClosed == [pc |-> "closed"]

\* The components of the page that are not in play.
InitPages ==
    /\ navbar = NavbarShown
    /\ prepared = NotPrepared
    /\ usersPage = UsersPageClosed
    /\ userForm = UserFormClosed

JsNull == [kind |-> "null", obj |-> SetupError(0)]
JsUndefined == [kind |-> "undefined", obj |-> SetupError(0)]
Obj(e) == [kind |-> "object", obj |-> e]

NotCalled == [isApiError |-> FALSE, isNetworkError |-> FALSE,
              message |-> "<not called>", called |-> FALSE]

InitClient ==
    /\ reqs = [r \in Reqs |-> Idle]
    /\ now = 0
    /\ calls = 0
    /\ logoutEvents = 0
    /\ received401 = 0
    /\ failedSessionCalls = 0
    /\ hasWindow \in BOOLEAN
    /\ debugEnabled \in BOOLEAN
    /\ development \in BOOLEAN
    /\ twin = [r \in Reqs |-> Idle]
    /\ twinEvents = 0
    /\ guard = Unmounted
    /\ InitPages

Init ==
    /\ InitClient
    /\ arg = JsUndefined
    /\ ret = NotCalled

\* ------------------------------------------------------------- the client
\* The lookups of CitizenService that answer null for an unknown citizen.
CitizenLookups ==
    {"getCitizenByIdentification", "getCitizenByEmail",
     "getCitizenByRazonSocial"}

\* The CRUD operations of CitizenService.
CitizenCrud ==
    {"getAllCitizens", "getCitizenById", "createCitizen", "updateCitizen",
     "deleteCitizen"}

Method(c) ==
    IF c \in {"api", "checkAuth", "getAllCitizens", "getCitizenById"}
            \cup CitizenLookups
    THEN "get"
    ELSE IF c = "updateCitizen" THEN "put"
    ELSE IF c = "deleteCitizen" THEN "delete"
    ELSE "post"

Url(c) ==
    CASE c = "login" -> LoginEndpoint
      [] c = "logout" -> LogoutEndpoint
      [] c = "refreshToken" -> RefreshEndpoint
      [] c = "checkAuth" -> CheckAuthEndpoint
      [] c \in {"getAllCitizens", "createCitizen"} -> CitizensEndpoint
      [] c \in {"getCitizenById", "updateCitizen", "deleteCitizen"}
            -> CitizenEndpoint
      [] c = "getCitizenByIdentification" -> CitizenByIdentificationEndpoint
      [] c = "getCitizenByEmail" -> CitizenByEmailEndpoint
      [] c = "getCitizenByRazonSocial" -> CitizenByRazonSocialEndpoint
      [] OTHER -> UsersEndpoint

\* Only a direct caller of api.* passes a config of its own.
MetadataOf(c) == IF c = "api" THEN CallerMetadata ELSE {NoMeta}

Busy == {r \in Reqs : reqs[r].pc # "idle"}
FreeSlot == CHOOSE r \in Reqs \ Busy : \A q \in Reqs \ Busy : r <= q

\* Variant: one metadata object shared by the descriptors in flight.
SetSharedMetadata(r, rec) ==
    reqs' = [q \in Reqs |->
                IF q = r THEN rec
                ELSE IF reqs[q].pc # "idle" /\ Has(reqs[q].config.metadata)
                        /\ Has(rec.config.metadata)
                     THEN [reqs[q] EXCEPT !.config.metadata = rec.config.metadata]
                     ELSE reqs[q]]

\* Each call has a request descriptor of its own: a step of one call writes
\* that call's record only.
Set(r, rec) == reqs' = [reqs EXCEPT ![r] = rec]
SetTwin(r, rec) == twin' = [twin EXCEPT ![r] = rec]

\* The request descriptor apiClient.request builds for a call.
Created(c, m) ==
    [Idle EXCEPT !.pc = "created", !.caller = c,
                 !.config = Config(Method(c), Url(c), m),
                 !.given = m]

\* api.get / api.post / ...: apiClient.request starts the interceptor chain.
Call(c, m) ==
    /\ calls < MaxCalls
    /\ Busy # Reqs
    /\ m \in MetadataOf(c)
    /\ Set(FreeSlot, Created(c, m))
    /\ SetTwin(FreeSlot, Created(c, m))
    /\ calls' = calls + 1
    /\ UNCHANGED <<now, logoutEvents, received401, failedSessionCalls, env, pages, guard,
                   helpers, twinEvents>>

\* config.metadata = { startTime: Date.now() }
StampedMetadata(metadata, t) == {Meta(t, {}, {})}

\* Variant: the timestamp is attached inside the logging block.
StampedInsideLogging(req, t, dbg) ==
    [req EXCEPT
        !.pc = "stamped",
        !.config.metadata = IF dbg THEN StampedMetadata(@, t) ELSE @,
        !.stampedAt = {t},
        !.console = @ \cup (IF dbg THEN {"group:API Request"} ELSE {})]

\* The request interceptor's config handler, at time t with
\* DEBUG_CONFIG.enabled = dbg.
Stamped(req, t, dbg) ==
    [req EXCEPT
        !.pc = "stamped",
        !.config.metadata = StampedMetadata(@, t),
        !.stampedAt = {t},
        !.console = @ \cup (IF dbg THEN {"group:API Request"} ELSE {})]

\* The request interceptor.
RequestFulfilled(r) ==
    /\ reqs[r].pc = "created"
    /\ Set(r, Stamped(reqs[r], now, debugEnabled))
    /\ SetTwin(r, Stamped(twin[r], now, ~debugEnabled))
    /\ UNCHANGED <<now, counters, env, pages, guard, helpers, twinEvents>>

\* return Promise.reject(error)
RequestRejectedValue(r, error) == error

\* The request interceptor's error handler, with DEBUG_CONFIG.enabled = dbg.
ChainRejected(req, r, dbg) ==
    [req EXCEPT
        !.pc = "failed",
        !.raised = {SetupError(r)},
        !.viaRequestHandler = TRUE,
        !.error = {RequestRejectedValue(r, SetupError(r))},
        !.console = @ \cup (IF dbg THEN {"error:Request Configuration Error"}
                            ELSE {})]

\* The request interceptor's error handler. It runs when a stage of the
\* request chain before it rejected (an interceptor registered after this
\* one); the request is then never dispatched and the rejection travels on
\* to the response error handler.
RequestRejected(r) ==
    /\ reqs[r].pc = "created"
    /\ Set(r, ChainRejected(reqs[r], r, debugEnabled))
    /\ SetTwin(r, ChainRejected(twin[r], r, ~debugEnabled))
    /\ UNCHANGED <<now, counters, env, pages, guard, helpers, twinEvents>>

\* What the transport does with a stamped request.
Outcome(k, st, b, why) == [kind |-> k, status |-> st, body |-> b, why |-> why]
Outcomes ==
    {Outcome("response", st, b, "") : st \in Statuses, b \in Bodies}
    \cup {Outcome("noresponse", 200, NoBody, w) : w \in NoResponseReasons}
    \cup {Outcome("setup", 200, NoBody, "")}

TransportError(r, o) ==
    CASE o.kind = "response" -> StatusError(r, o.status, o.body)
      [] o.kind = "noresponse" -> NoResponseError(r, o.why)
      [] OTHER -> SetupError(r)

\* dispatchRequest: the adapter sends the request and settles it by
\* validateStatus.
Transported(req, r, o) ==
    IF o.kind = "response" /\ validateStatus(o.status)
    THEN [req EXCEPT
            !.pc = "responded",
            !.sent = @ + 1,
            !.response = {Response(r, o.status, o.body)}]
    ELSE [req EXCEPT
            !.pc = "failed",
            !.sent = @ + (IF o.kind = "setup" THEN 0 ELSE 1),
            !.raised = {TransportError(r, o)},
            !.error = {TransportError(r, o)}]

\* The transport settles the request of call r with outcome o.
Transport(r, o) ==
    /\ reqs[r].pc = "stamped"
    /\ Set(r, Transported(reqs[r], r, o))
    /\ SetTwin(r, Transported(twin[r], r, o))
    /\ received401' = received401
            + (IF o.kind = "response" /\ o.status = 401 THEN 1 ELSE 0)
    /\ UNCHANGED <<now, calls, logoutEvents, failedSessionCalls, env, pages, guard,
                   helpers, twinEvents>>

\* The response interceptor's success handler, at time t with
\* isDevelopment() = dev and DEBUG_CONFIG.enabled = dbg.
Fulfilled(req, t, dev, dbg) ==
    [req EXCEPT
        !.pc = "resolved",
        !.beforeMerge = req.config.metadata,
        !.completedAt = {t},
        !.measured = {Duration(req.config.metadata, t)},
        !.config.metadata = MetadataAfterResponse(@, t, dev),
        !.resolved = {ResolvedValue(The(req.response))},
        !.settles = @ + 1,
        !.console = @ \cup (IF dbg THEN {"group:API Response"} ELSE {})]

\* The response interceptor, success handler.
ResponseFulfilled(r) ==
    /\ reqs[r].pc = "responded"
    /\ Set(r, Fulfilled(reqs[r], now, development, debugEnabled))
    /\ SetTwin(r, Fulfilled(twin[r], now, development, ~debugEnabled))
    /\ UNCHANGED <<now, counters, env, pages, guard, helpers, twinEvents>>

\* Variant: the first failure of a call is retried instead of rejected.
RejectedAfterRetry(req, r, win, dbg) ==
    IF req.sent = 1
    THEN [req EXCEPT !.pc = "stamped", !.error = {}, !.raised = {}]
    ELSE [req EXCEPT
            !.pc = "rejected",
            !.rejected = {RejectedValue(r, The(req.error))},
            !.dispatched = @ + ErrorDispatches(The(req.error), win),
            !.settles = @ + 1,
            !.console = @ \cup ErrorConsole(The(req.error), dbg)]

\* The response interceptor's error handler, with
\* typeof window !== 'undefined' = win and DEBUG_CONFIG.enabled = dbg.
Rejected(req, r, win, dbg) ==
    [req EXCEPT
        !.pc = "rejected",
        !.rejected = {RejectedValue(r, The(req.error))},
        !.dispatched = @ + ErrorDispatches(The(req.error), win),
        !.settles = @ + 1,
        !.console = @ \cup ErrorConsole(The(req.error), dbg)]

\* The response interceptor, error handler.
ResponseRejected(r) ==
    /\ reqs[r].pc = "failed"
    /\ Set(r, Rejected(reqs[r], r, hasWindow, debugEnabled))
    /\ SetTwin(r, Rejected(twin[r], r, hasWindow, ~debugEnabled))
    /\ logoutEvents' = logoutEvents
            + ErrorDispatches(The(reqs[r].error), hasWindow)
    /\ twinEvents' = twinEvents
            + (Rejected(twin[r], r, hasWindow, ~debugEnabled).dispatched
               - twin[r].dispatched)
    /\ UNCHANGED <<now, calls, received401, failedSessionCalls, env, pages, guard, helpers>>

\* --------------------------------------------------- services/authService
\* Variant: no catch block clears the local state.
CatchClearsNever(c) == FALSE

\* Whether the method's catch block calls this.clearLocalAuthState().
CatchClears(c) == c \in {"logout", "refreshToken"}

\* clearLocalAuthState: the 'auth:logout' events it dispatches.
ClearDispatches(win) == IF win THEN 1 ELSE 0

\* ------------------------------------------------ services/citizenService
\* error.response?.status === 404
isNotFoundError(error) ==
    Has(error.response) /\ The(error.response).status = 404

ConnectMessage ==
    "No se pudo conectar con el servidor. Verifica tu conexión a internet."

\* The message handleApiError chooses; the bodies of the model carry neither
\* details nor error, so those two tests are never met.
HandledMessage(error) ==
    IF Has(error.response) /\ Truthy(BodyMessage(The(error.response).data))
    THEN BodyMessage(The(error.response).data)
    ELSE IF ~Has(error.response) THEN ConnectMessage
    ELSE CASE The(error.response).status = 400
                -> "Datos inválidos. Verifica la información enviada."
           [] The(error.response).status = 401
                -> "No tienes permisos para realizar esta acción."
           [] The(error.response).status = 404
                -> "El recurso solicitado no fue encontrado."
           [] The(error.response).status = 409
                -> "Ya existe un registro con estos datos."
           [] The(error.response).status = 500
                -> "Error interno del servidor. Intenta nuevamente."
           [] OTHER -> "<defaultMessage>"

\* handleApiError(error, defaultMessage): a new Error with that message.
handleApiError(error) ==
    Err(Oid("handleApiError", error.oid.req), HandledMessage(error),
        FALSE, {}, {}, {}, Undefined, Undefined)

ReturnedNull == [NoResult EXCEPT !.kind = "returned", !.payload = Null]

\* A CRUD operation after its await: the response body, or a throw of what
\* handleApiError made of the error.
CrudResult(req) ==
    IF req.pc = "resolved" THEN Returned(The(req.resolved).data)
    ELSE Thrown(handleApiError(The(req.rejected)))

\* A lookup after its await: the citizen, null for a not-found error, or a
\* throw of what handleApiError made of the error.
LookupResult(req) ==
    IF req.pc = "resolved" THEN Returned(The(req.resolved).data)
    ELSE IF isNotFoundError(The(req.rejected)) THEN ReturnedNull
    ELSE Thrown(handleApiError(The(req.rejected)))


\* What the method hands to its own caller once the client's promise has
\* settled. checkAuth reads response.data.data inside its try block, so a
\* response without a body ends in its catch block as well.
ServiceResult(c, req) ==
    IF c \in CitizenLookups THEN LookupResult(req)
    ELSE IF c \in CitizenCrud THEN CrudResult(req)
    ELSE IF req.pc = "resolved"
    THEN LET body == The(req.resolved).data
         IN IF c = "checkAuth"
            THEN IF body.kind = "object" THEN ReturnedPayload(body.data)
                 ELSE ReturnedPayload("anonymous")
            ELSE Returned(body)
    ELSE IF c = "checkAuth" THEN ReturnedPayload("anonymous")
         ELSE Thrown(The(req.rejected))

\* The continuation of the await in the calling method.
Settle(r) ==
    /\ reqs[r].pc \in {"resolved", "rejected"}
    /\ LET c == reqs[r].caller
           failed == reqs[r].pc = "rejected"
       IN /\ Set(r, [reqs[r] EXCEPT !.pc = "done",
                                    !.result = ServiceResult(c, reqs[r])])
          /\ SetTwin(r, [twin[r] EXCEPT !.pc = "done",
                                        !.result = ServiceResult(c, twin[r])])
          /\ failedSessionCalls' = failedSessionCalls
                + (IF failed /\ c \in {"logout", "refreshToken"} THEN 1 ELSE 0)
          /\ logoutEvents' = logoutEvents
                + (IF failed /\ CatchClears(c)
                   THEN ClearDispatches(hasWindow) ELSE 0)
          /\ twinEvents' = twinEvents
                + (IF twin[r].pc = "rejected" /\ CatchClears(c)
                   THEN ClearDispatches(hasWindow) ELSE 0)
    /\ UNCHANGED <<now, calls, received401, env, pages, guard, helpers>>

\* The request descriptor and its result are dropped.
Release(r) ==
    /\ reqs[r].pc = "done"
    /\ Set(r, Idle)
    /\ SetTwin(r, Idle)
    /\ UNCHANGED <<now, counters, env, pages, guard, helpers, twinEvents>>

\* Wall-clock time passes.
Tick ==
    /\ now < MaxTime
    /\ now' = now + 1
    /\ UNCHANGED <<reqs, counters, env, pages, guard, helpers, twin, twinEvents>>

\* ------------------------------------------------------- specifications
\* Each call is awaited before the next one is made.
AwaitedCall == Busy = {} /\ \E c \in Callers, m \in CallerMetadata : Call(c, m)
Stamp == \E r \in Reqs : RequestFulfilled(r)
ChainRejects == \E r \in Reqs : RequestRejected(r)
Dispatch == \E r \in Reqs, o \in Outcomes : Transport(r, o)
Succeed == \E r \in Reqs : ResponseFulfilled(r)
Fail == \E r \in Reqs : ResponseRejected(r)
Continue == \E r \in Reqs : Settle(r)
Drop == \E r \in Reqs : Release(r)

Next ==
    \/ AwaitedCall
    \/ Stamp
    \/ ChainRejects
    \/ Dispatch
    \/ Succeed
    \/ Fail
    \/ Continue
    \/ Drop
    \/ Tick

Spec == Init /\ [][Next]_vars

\* The error helpers, applied to any value a catch block may hold.
Flags == {Undefined, "true", "false", "1"}
Messages == {Undefined, Null, "", "Not found", "boom"}
InputResponses ==
    { {} } \cup
    { {Response(0, 500, b)} :
        b \in {NoBody, Body(Undefined, Undefined), Body("", Undefined),
               Body("X", Undefined)} }
HelperInputs ==
    {JsNull, JsUndefined} \cup
    { Obj(Err(Oid("input", 0), m, FALSE, resp, {}, {}, api, net)) :
        m \in Messages, resp \in InputResponses,
        api \in Flags, net \in Flags }

InitHelpers ==
    /\ InitClient
    /\ arg \in HelperInputs
    /\ ret = NotCalled

\* A catch block asks the helpers about the value it caught.
ApplyHelpers ==
    /\ ~ret.called
    /\ ret' = [isApiError |-> isApiError(arg),
               isNetworkError |-> isNetworkError(arg),
               message |-> getErrorMessage(arg),
               called |-> TRUE]
    /\ UNCHANGED <<reqs, now, counters, env, pages, guard, arg, twin, twinEvents>>

NextHelpers == ApplyHelpers

SpecHelpers == InitHelpers /\ [][NextHelpers]_vars

-----------------------------------------------------------------------------
\* The success handler's metadata merge on its own: a response arrives whose
\* descriptor carries any metadata record the declared type allows.

\* metadata?: { startTime: number; duration?: number; [key: string]: any }
\* with a start time that is not in the future.
MetricInputs(t) ==
    {NoMeta} \cup
    { {Meta(st, d, c)} : st \in 0..t, d \in {{}, {7}}, c \in {{}, {"x"}} }

\* Call 1 is answered with a success status; its descriptor's metadata is m.
Answered(c, m, b) ==
    [Created(c, m) EXCEPT !.pc = "responded", !.sent = 1,
                          !.stampedAt = {},
                          !.response = {Response(1, 200, b)}]

InitMetrics ==
    /\ now \in 0..MaxTime
    /\ \E c \in Callers, m \in MetricInputs(now),
          b \in {Body("ok", "authenticated"), NoBody} :
            /\ reqs = [r \in Reqs |-> IF r = 1 THEN Answered(c, m, b) ELSE Idle]
            /\ twin = [r \in Reqs |-> IF r = 1 THEN Answered(c, m, b) ELSE Idle]
    /\ calls = 1
    /\ logoutEvents = 0
    /\ received401 = 0
    /\ failedSessionCalls = 0
    /\ twinEvents = 0
    /\ guard = Unmounted
    /\ InitPages
    /\ hasWindow \in BOOLEAN
    /\ debugEnabled \in BOOLEAN
    /\ development \in BOOLEAN
    /\ arg = JsUndefined
    /\ ret = NotCalled

NextMetrics ==
    \/ Succeed
    \/ Continue
    \/ Drop
    \/ Tick

SpecMetrics == InitMetrics /\ [][NextMetrics]_vars

\* ------------------------------------------------------------- properties
\* The requests whose failure the response error handler has handled.
Handled == {r \in Reqs : reqs[r].pc \in {"rejected", "done"} /\ Has(reqs[r].rejected)}
FailureOf(r) == The(reqs[r].error)
RejectedOf(r) == The(reqs[r].rejected)

\* C1: every failure the response error handler handles is rejected as
\* exactly one of three kinds, first match wins: a response exists -> API
\* error; else a request exists -> network error; else the raw error. No
\* rejected value has both flags true, and one with neither flag true comes
\* only from a failure with neither response nor request.
C1_Taxonomy ==
    \A r \in Handled :
        LET e == FailureOf(r)
            v == RejectedOf(r)
        IN /\ Has(e.response) =>
                v.isApiError = "true" /\ v.isNetworkError # "true"
           /\ (~Has(e.response) /\ e.request) =>
                v.isNetworkError = "true" /\ v.isApiError # "true"
           /\ (~Has(e.response) /\ ~e.request) => v = e
           /\ ~(v.isApiError = "true" /\ v.isNetworkError = "true")
           /\ (v.isApiError # "true" /\ v.isNetworkError # "true")
                => (~Has(e.response) /\ ~e.request)

\* A failure that carries both a response and a request was rejected as an
\* API error.
C1_Witness ==
    \E r \in Handled :
        /\ Has(FailureOf(r).response)
        /\ FailureOf(r).request
        /\ RejectedOf(r).isApiError = "true"

\* C2: a failure with a server response (a status outside [200, 300)) is
\* rejected as a Normalized Error, never the raw transport error, with
\* isApiError true, isNetworkError falsy, the server's status and the
\* server's body as data, whatever the status; and every response with such
\* a status takes the failure path.
C2_ApiErrorShape ==
    \A r \in Reqs :
        /\ Has(reqs[r].response) => validateStatus(The(reqs[r].response).status)
        /\ (Has(reqs[r].error) /\ Has(FailureOf(r).response))
                => ~validateStatus(The(FailureOf(r).response).status)
        /\ (r \in Handled /\ Has(FailureOf(r).response)) =>
                LET resp == The(FailureOf(r).response)
                    v == RejectedOf(r)
                IN /\ v.oid # FailureOf(r).oid
                   /\ v.oid.site = "apiError"
                   /\ v.isApiError = "true"
                   /\ ~Truthy(v.isNetworkError)
                   /\ v.status = {resp.status}
                   /\ v.data = {resp.data}
                   /\ ~Has(v.response)

\* A status of the default branch of the switch, just above the accepted
\* range, was rejected with its status and body.
C2_Witness ==
    \E r \in Handled :
        /\ Has(FailureOf(r).response)
        /\ The(FailureOf(r).response).status = 300
        /\ RejectedOf(r).status = {300}
        /\ RejectedOf(r).data = {Body("invalid credentials", Undefined)}

\* C3: in a browser the response error handler dispatches 'auth:logout'
\* exactly once for a failure whose response has status 401 and never for
\* another status or for a failure without response; without window nothing
\* is dispatched and the failure is still rejected with the Normalized Error.
Is401(e) == Has(e.response) /\ The(e.response).status = 401

C3_DispatchOn401 ==
    \A r \in Reqs :
        /\ r \notin Handled => reqs[r].dispatched = 0
        /\ r \in Handled =>
             /\ reqs[r].dispatched
                    = (IF hasWindow /\ Is401(FailureOf(r)) THEN 1 ELSE 0)
             /\ Is401(FailureOf(r)) =>
                    /\ RejectedOf(r).isApiError = "true"
                    /\ RejectedOf(r).status = {401}

\* In a browser a 401 was handled and one event was dispatched for it.
C3_Witness ==
    \E r \in Handled :
        /\ hasWindow
        /\ Is401(FailureOf(r))
        /\ reqs[r].dispatched = 1
        /\ logoutEvents = 1

\* No call is between its start and the end of its caller's continuation.
NoPending == \A r \in Reqs : reqs[r].pc \in {"idle", "done"}

\* The 401 responses received whose failure handler has not run yet.
Pending401 ==
    Cardinality({r \in Reqs : reqs[r].pc = "failed" /\ Is401(FailureOf(r))})

\* C4 as stated: across any sequence of requests through the shared client,
\* those of authService included, 'auth:logout' is fired once per 401
\* response and never otherwise.
\* Checked where every call made so far was answered with a 401.
C4_OncePer401Only ==
    (hasWindow /\ NoPending /\ received401 = calls)
        => logoutEvents = received401

\* C4 as amended: in a browser the events fired are one per 401 response
\* handled by the interceptor plus one per failed logout or refreshToken
\* call (clearLocalAuthState), whatever the failure; login, checkAuth and
\* direct callers add none; without window nothing is fired.
C4_EventsFired ==
    logoutEvents =
        IF hasWindow
        THEN (received401 - Pending401) + failedSessionCalls
        ELSE 0

\* In a browser a logout call failed without any 401 and an event was fired,
\* and another call's 401 fired one more.
C4_Witness ==
    /\ hasWindow
    /\ NoPending
    /\ received401 = 1
    /\ failedSessionCalls = 1
    /\ logoutEvents = 2

\* C5: a failure with a dispatched request and no response (the timeout
\* included) is rejected as a Normalized Error with isNetworkError true,
\* isApiError falsy, the fixed connectivity message, no status and no data.
C5_NetworkErrorShape ==
    \A r \in Handled :
        (~Has(FailureOf(r).response) /\ FailureOf(r).request) =>
            LET v == RejectedOf(r)
            IN /\ v.oid # FailureOf(r).oid
               /\ v.isNetworkError = "true"
               /\ ~Truthy(v.isApiError)
               /\ v.message = ConnectionMessage
               /\ v.status = {}
               /\ v.data = {}

\* The configured timeout ran out and the call was rejected as a network
\* error.
C5_Witness ==
    \E r \in Handled :
        /\ FailureOf(r).message = "timeout of 10000ms exceeded"
        /\ reqs[r].sent = 1
        /\ RejectedOf(r).isNetworkError = "true"
        /\ reqs[r].result.kind = "thrown"

\* C6: a failure with neither request nor response is rejected as the
\* original error itself: the same object, no field added or changed, both
\* past the request interceptor's error handler and past the response error
\* handler.
C6_SetupErrorUnwrapped ==
    \A r \in Reqs :
        (Has(reqs[r].raised)
            /\ ~Has(The(reqs[r].raised).response)
            /\ ~The(reqs[r].raised).request) =>
            /\ reqs[r].error = reqs[r].raised
            /\ r \in Handled =>
                /\ RejectedOf(r) = The(reqs[r].raised)
                /\ RejectedOf(r).oid = The(reqs[r].raised).oid
                /\ ~Truthy(RejectedOf(r).isApiError)
                /\ ~Truthy(RejectedOf(r).isNetworkError)

\* A rejection of the request chain passed both handlers and was never
\* dispatched.
C6_Witness ==
    \E r \in Handled :
        /\ reqs[r].viaRequestHandler
        /\ reqs[r].sent = 0
        /\ RejectedOf(r).oid.site = "AxiosError"

\* C7: getErrorMessage returns the first applicable of (a) e.message when e
\* is flagged isApiError or isNetworkError, (b) e.response.data.message when
\* it is a usable (non-empty) string, (c) e.message when usable, (d) the
\* fallback; a Normalized API error with message 'Not found' gives
\* 'Not found', a raw {response:{data:{message:'X'}}} gives 'X', {} gives
\* the fallback.
Flagged(e) ==
    e.kind = "object"
    /\ (e.obj.isApiError = "true" \/ e.obj.isNetworkError = "true")

NestedMessage(e) ==
    IF e.kind = "object" /\ Has(e.obj.response)
       /\ The(e.obj.response).data.kind = "object"
    THEN The(e.obj.response).data.message
    ELSE Undefined

OwnMessage(e) == IF e.kind = "object" THEN e.obj.message ELSE Undefined

C7_MessagePriority ==
    ret.called =>
        /\ ret.isApiError = (arg.kind = "object" /\ arg.obj.isApiError = "true")
        /\ ret.isNetworkError
                = (arg.kind = "object" /\ arg.obj.isNetworkError = "true")
        /\ Flagged(arg) => ret.message = arg.obj.message
        /\ (~Flagged(arg) /\ Truthy(NestedMessage(arg)))
                => ret.message = NestedMessage(arg)
        /\ (~Flagged(arg) /\ ~Truthy(NestedMessage(arg))
                /\ Truthy(OwnMessage(arg)))
                => ret.message = OwnMessage(arg)
        /\ (~Flagged(arg) /\ ~Truthy(NestedMessage(arg))
                /\ ~Truthy(OwnMessage(arg)))
                => ret.message = FallbackMessage
        /\ arg = Obj(Err(Oid("input", 0), "Not found", FALSE, {}, {}, {},
                         "true", Undefined))
                => ret.message = "Not found"
        /\ arg = Obj(Err(Oid("input", 0), Undefined, FALSE,
                         {Response(0, 500, Body("X", Undefined))}, {}, {},
                         Undefined, Undefined))
                => ret.message = "X"
        /\ arg = Obj(Err(Oid("input", 0), Undefined, FALSE, {}, {}, {},
                         Undefined, Undefined))
                => ret.message = FallbackMessage

\* An unflagged error with both a server message and a message of its own:
\* the server's message was returned.
C7_Witness ==
    /\ ret.called
    /\ ~Flagged(arg)
    /\ NestedMessage(arg) = "X"
    /\ OwnMessage(arg) = "boom"
    /\ ret.message = "X"

\* C8: for every input (null, undefined, {}, and objects flagged isApiError
\* or isNetworkError whose message is missing or empty) getErrorMessage
\* returns a non-empty string.
C8_AlwaysDisplayable ==
    ret.called => Truthy(ret.message)

\* C9 as stated: an API failure's message is the body's message whenever the
\* body has one that is neither null nor undefined, the empty string
\* included, and 'HTTP Error {status}' only when the body or its message is
\* absent.
C9_MessageNullish ==
    \A r \in Handled :
        Has(FailureOf(r).response) =>
            LET resp == The(FailureOf(r).response)
                m == IF resp.data.kind = "object" THEN resp.data.message
                     ELSE Undefined
            IN RejectedOf(r).message =
                 IF m \notin {Undefined, Null} THEN m
                 ELSE "HTTP Error " \o ToString(resp.status)

\* C9 as amended: an API failure's message is the body's message whenever
\* that is a non-empty string, and 'HTTP Error {status}' when the body or
\* its message is absent, null or the empty string.
C9_MessageTruthy ==
    \A r \in Handled :
        Has(FailureOf(r).response) =>
            LET resp == The(FailureOf(r).response)
                m == IF resp.data.kind = "object" THEN resp.data.message
                     ELSE Undefined
            IN RejectedOf(r).message =
                 IF m \notin {Undefined, Null, ""} THEN m
                 ELSE "HTTP Error " \o ToString(resp.status)

\* A 422 whose body carries an empty message was rejected with the status
\* message.
C9_Witness ==
    \E r \in Handled :
        /\ Has(FailureOf(r).response)
        /\ The(FailureOf(r).response).status = 422
        /\ The(FailureOf(r).response).data = Body("", Undefined)
        /\ RejectedOf(r).message = "HTTP Error 422"

\* C10: a response whose status is in [200, 300) takes the success path and
\* the caller's promise resolves with the same response object, its status,
\* headers and body unchanged; of the request config only the metadata may
\* have changed.
C10_ResponseUnchanged ==
    \A r \in Reqs :
        /\ (Has(reqs[r].response) /\ reqs[r].pc # "responded")
                => Has(reqs[r].resolved)
        /\ Has(reqs[r].resolved) =>
            LET got == The(reqs[r].response)
                out == The(reqs[r].resolved)
            IN /\ validateStatus(got.status)
               /\ out.oid = got.oid
               /\ out.status = got.status
               /\ out.headers = got.headers
               /\ out.data = got.data
               /\ reqs[r].config.method = Method(reqs[r].caller)
               /\ reqs[r].config.url = Url(reqs[r].caller)
               /\ ~Has(reqs[r].rejected)

\* A development build merged the duration into the metadata and the caller
\* still received the login envelope as the backend sent it.
C10_Witness ==
    \E r \in Reqs :
        /\ reqs[r].pc = "done"
        /\ reqs[r].caller = "login"
        /\ Has(reqs[r].resolved)
        /\ The(reqs[r].resolved).data = Body("ok", "authenticated")
        /\ Has(reqs[r].config.metadata)
        /\ The(reqs[r].config.metadata).duration = {1}
        /\ reqs[r].result = Returned(Body("ok", "authenticated"))

-----------------------------------------------------------------------------
\* Calls made without awaiting one another (Promise.all, independent
\* components): their interceptor steps interleave freely.

ConcurrentOutcomes ==
    {Outcome("response", 200, Body("ok", "authenticated"), ""),
     Outcome("response", 500, NoBody, "")}

InitConcurrent ==
    /\ InitClient
    /\ hasWindow
    /\ ~debugEnabled
    /\ arg = JsUndefined
    /\ ret = NotCalled

ConcurrentCall == \E m \in CallerMetadata : Call("api", m)
ConcurrentDispatch == \E r \in Reqs, o \in ConcurrentOutcomes : Transport(r, o)

NextConcurrent ==
    \/ ConcurrentCall
    \/ Stamp
    \/ ConcurrentDispatch
    \/ Succeed
    \/ Fail
    \/ Continue
    \/ Drop
    \/ Tick

SpecConcurrent == InitConcurrent /\ [][NextConcurrent]_vars

-----------------------------------------------------------------------------
\* services/citizenService: the lookups by identification, email and razon
\* social, each awaited, through the shared client.

LookupCall == Busy = {} /\ \E c \in CitizenLookups : Call(c, NoMeta)

CrudCall == Busy = {} /\ \E c \in CitizenCrud : Call(c, NoMeta)

NextCitizen ==
    \/ LookupCall
    \/ CrudCall
    \/ Stamp
    \/ Dispatch
    \/ Succeed
    \/ Fail
    \/ Continue
    \/ Drop
    \/ Tick

SpecCitizen == Init /\ [][NextCitizen]_vars

-----------------------------------------------------------------------------
\* components/AuthGuard.tsx: the guard mounts, asks authService.checkAuth()
\* and renders by authState; the redirect effect arms a timer.

\* What /auth/check may answer: the envelopes of Bodies and one whose data
\* is { authenticated: true } without a user.
GuardOutcomes ==
    Outcomes \cup {Outcome("response", 200, Body("ok", "authenticatedNoUser"), "")}

\* authResult.authenticated and authResult.user of a checkAuth payload.
Authenticated(p) == p \in {"authenticated", "authenticatedNoUser"}
UserOf(p) == IF p = "authenticated" THEN "user" ELSE Undefined

\* authResult.authenticated read on an undefined authResult.
TypeError(r) ==
    Err(Oid("TypeError", r),
        "Cannot read properties of undefined (reading 'authenticated')",
        FALSE, {}, {}, {}, Undefined, Undefined)

\* Variant: only the error state arms a redirect.
ScheduledForErrorOnly(authState) ==
    IF authState = "error" THEN {ErrorDelay} ELSE {}

\* The redirect effect for the authState just committed: the timer of the
\* previous authState is cleared by the cleanup, a new one is armed.
Scheduled(authState) ==
    IF authState = "unauthenticated" THEN {UnauthenticatedDelay}
    ELSE IF authState = "error" THEN {ErrorDelay}
    ELSE {}

Committed(g) ==
    [g EXCEPT !.timer = Scheduled(g.authState),
              !.scheduled = Scheduled(g.authState)]

\* checkAuthentication up to its await.
Checking(g) ==
    Committed([g EXCEPT !.pc = "awaiting", !.error = "",
                        !.authState = "checking",
                        !.seen = NoResult, !.answered = {}, !.failure = {}])

\* The catch block of checkAuthentication.
Caught(g, err) ==
    [g EXCEPT !.error = getErrorMessage(err), !.authState = "error"]

\* Variant: the user is not tested before access is granted.
ResumedWithoutUserTest(g, req, r) ==
    LET res == req.result
        seen == [g EXCEPT !.pc = "settled", !.seen = res,
                          !.answered = req.resolved, !.failure = req.rejected]
    IN Committed(
        IF res.kind = "thrown" THEN Caught(seen, Obj(The(res.error)))
        ELSE IF res.payload = Undefined THEN Caught(seen, Obj(TypeError(r)))
        ELSE IF Authenticated(res.payload)
             THEN [seen EXCEPT !.user = UserOf(res.payload),
                               !.authState = "authenticated"]
             ELSE [seen EXCEPT !.authState = "unauthenticated"])

\* checkAuthentication after its await, with the settled checkAuth call req.
Resumed(g, req, r) ==
    LET res == req.result
        seen == [g EXCEPT !.pc = "settled", !.seen = res,
                          !.answered = req.resolved, !.failure = req.rejected]
    IN Committed(
        IF res.kind = "thrown" THEN Caught(seen, Obj(The(res.error)))
        ELSE IF res.payload = Undefined THEN Caught(seen, Obj(TypeError(r)))
        ELSE IF Authenticated(res.payload) /\ Truthy(UserOf(res.payload))
             THEN [seen EXCEPT !.user = UserOf(res.payload),
                               !.authState = "authenticated"]
             ELSE [seen EXCEPT !.authState = "unauthenticated"])

\* The render branches.
Rendered(g) ==
    IF g.authState = "checking" THEN "loading"
    ELSE IF g.authState = "error" THEN "ErrorScreen"
    ELSE IF g.authState = "unauthenticated" THEN "UnauthenticatedScreen"
    ELSE IF g.authState = "authenticated" /\ Truthy(g.user) THEN "children"
    ELSE "loading"

\* checkAuthentication starts: authService.checkAuth() calls
\* api.get(API_ENDPOINTS.auth.checkAuth).
StartCheck ==
    /\ calls < MaxCalls
    /\ Busy = {}
    /\ Set(FreeSlot, Created("checkAuth", NoMeta))
    /\ SetTwin(FreeSlot, Created("checkAuth", NoMeta))
    /\ calls' = calls + 1
    /\ guard' = Checking(guard)
    /\ UNCHANGED <<now, logoutEvents, received401, failedSessionCalls, env, pages,
                   helpers, twinEvents>>

\* useEffect(() => { checkAuthentication() }, [])
Mount ==
    /\ guard.pc = "unmounted"
    /\ StartCheck

\* The retry button of the error screen: onRetry={checkAuthentication}.
Retry ==
    /\ guard.pc = "settled"
    /\ Rendered(guard) = "ErrorScreen"
    /\ StartCheck

GuardDispatch == \E r \in Reqs, o \in GuardOutcomes : Transport(r, o)

\* await authService.checkAuth() settles and checkAuthentication goes on.
Resume ==
    \E r \in Reqs :
        /\ guard.pc = "awaiting"
        /\ reqs[r].pc = "done"
        /\ reqs[r].caller = "checkAuth"
        /\ guard' = Resumed(guard, reqs[r], r)
        /\ Set(r, Idle)
        /\ SetTwin(r, Idle)
        /\ UNCHANGED <<now, counters, env, pages, helpers, twinEvents>>

\* The armed timer fires: redirectUser(redirectTo) sets window.location.href
\* when there is a window, and the page is left.
TimerFires ==
    /\ Has(guard.timer)
    /\ guard' = [guard EXCEPT !.timer = {},
                              !.redirected = hasWindow,
                              !.pc = IF hasWindow THEN "left" ELSE @]
    /\ UNCHANGED <<reqs, now, counters, env, pages, helpers, twin, twinEvents>>

NextGuard ==
    \/ Mount
    \/ Stamp
    \/ GuardDispatch
    \/ Succeed
    \/ Fail
    \/ Continue
    \/ Resume
    \/ TimerFires
    \/ Retry
    \/ Tick

SpecGuard == Init /\ [][NextGuard]_vars

\* The guard in a browser, where effects and timers run: the mount effect
\* runs, the checkAuth request goes through the chain and settles, and an
\* armed timer fires unless it is cleared first. Clock advances and the retry
\* button are left to chance.
InitBrowser == Init /\ hasWindow

GuardFairness ==
    /\ WF_vars(Mount)
    /\ WF_vars(Stamp)
    /\ WF_vars(GuardDispatch)
    /\ WF_vars(Succeed)
    /\ WF_vars(Fail)
    /\ WF_vars(Continue)
    /\ WF_vars(Resume)
    /\ WF_vars(TimerFires)

SpecGuardLive == InitBrowser /\ [][NextGuard]_vars /\ GuardFairness

-----------------------------------------------------------------------------
\* services/citizenService: prepareCitizenData on a form.

RECURSIVE Texts(_)
Texts(n) ==
    IF n = 0 THEN {<<>>}
    ELSE Texts(n - 1)
         \cup {Append(t, c) : t \in {u \in Texts(n - 1) : Len(u) = n - 1},
                              c \in {" ", "a"}}

\* What a form field may hold.
FieldValues ==
    {Str(t) : t \in Texts(MaxLen) \cup {DateText}}
    \cup {NumberValue, UndefinedValue}

\* A form with a required field, an optional one and the birth date.
CitizenForms ==
    [{"numero_identificacion", "nombre", "fecha_nacimiento"} -> FieldValues]

InitPrepare ==
    /\ InitClient
    /\ arg = JsUndefined
    /\ ret = NotCalled

\* createCitizen / updateCitizen take a form.
TakeForm ==
    /\ prepared = NotPrepared
    /\ \E data \in CitizenForms :
            prepared' = [input |-> data, output |-> data, called |-> FALSE]
    /\ UNCHANGED <<reqs, now, counters, env, helpers, twin, twinEvents,
                   guard, navbar, usersPage, userForm>>

\* const cleanedData = this.prepareCitizenData(citizenData)
Prepare ==
    /\ prepared # NotPrepared
    /\ ~prepared.called
    /\ prepared' = [prepared EXCEPT !.output = prepareCitizenData(prepared.input),
                                    !.called = TRUE]
    /\ UNCHANGED <<reqs, now, counters, env, helpers, twin, twinEvents,
                   guard, navbar, usersPage, userForm>>

NextPrepare ==
    \/ TakeForm
    \/ Prepare

SpecPrepare == InitPrepare /\ [][NextPrepare]_vars

-----------------------------------------------------------------------------
\* app/(authenticated)/users: the list of users with its two filters.

\* <option value="all" | "1" | "2" | "3">
RoleOptions == {"all", "1", "2", "3"}

\* The URLSearchParams loadUsers builds from the two filters.
QueryParams(showInactive, selectedRole) ==
    (IF ~showInactive THEN {<<"include_inactive", "true">>} ELSE {})
    \cup (IF selectedRole # "all" THEN {<<"role_id", selectedRole>>} ELSE {})

\* `/users?${params.toString()}`
QueryUrl(showInactive, selectedRole) ==
    "/users?"
    \o (IF ~showInactive THEN "include_inactive=true" ELSE "")
    \o (IF ~showInactive /\ selectedRole # "all" THEN "&" ELSE "")
    \o (IF selectedRole # "all" THEN "role_id=" \o selectedRole ELSE "")

\* The envelope of the users endpoint: { status, message, data }.
UsersBody(st, m, d) ==
    [kind |-> "object", status |-> st, message |-> m, data |-> d]

UsersOutcomes ==
    {Outcome("response", 200, UsersBody("success", "ok", "users"), ""),
     Outcome("response", 200, UsersBody("error", "", Undefined), ""),
     Outcome("response", 500, NoBody, ""),
     Outcome("noresponse", 200, NoBody, "Network Error")}

\* useState: no users, loading, no error, role 'all', showInactive false.
UsersPageOpen ==
    [pc |-> "open", users |-> "none", isLoading |-> TRUE, error |-> "",
     selectedRole |-> "all", showInactive |-> FALSE,
     params |-> {}, loads |-> 0]

\* loadUsers up to its await, with the filters of the render it closes over.
Loading(page) ==
    [page EXCEPT !.isLoading = TRUE, !.error = "",
                 !.params = QueryParams(page.showInactive, page.selectedRole),
                 !.loads = @ + 1]

\* loadUsers after its await.
Loaded(page, res) ==
    IF res.kind = "thrown"
    THEN [page EXCEPT !.error = getErrorMessage(Obj(The(res.error))),
                      !.isLoading = FALSE]
    ELSE LET body == The(res.body)
         IN IF body.kind # "object"
            THEN [page EXCEPT !.error = getErrorMessage(Obj(TypeError(0))),
                              !.isLoading = FALSE]
            ELSE IF body.status = "success"
            THEN [page EXCEPT !.users = body.data, !.isLoading = FALSE]
            ELSE [page EXCEPT
                    !.error = IF Truthy(body.message) THEN body.message
                              ELSE "No se pudieron cargar los usuarios",
                    !.isLoading = FALSE]

\* The page with new filters issues api.get(`/users?...`).
LoadUsers(page) ==
    /\ calls < MaxCalls
    /\ Busy # Reqs
    /\ LET call == [Created("loadUsers", NoMeta) EXCEPT
                        !.config.url = QueryUrl(page.showInactive,
                                                page.selectedRole)]
       IN /\ Set(FreeSlot, call)
          /\ SetTwin(FreeSlot, call)
    /\ calls' = calls + 1
    /\ usersPage' = Loading(page)
    /\ UNCHANGED <<now, logoutEvents, received401, failedSessionCalls, env,
                   helpers, twinEvents, guard, navbar, prepared, userForm>>

\* useEffect(() => { loadUsers() }, [showInactive, selectedRole]) at mount.
OpenUsers ==
    /\ usersPage = UsersPageClosed
    /\ LoadUsers(UsersPageOpen)

\* The 'Incluir inactivos' checkbox: setShowInactive(e.target.checked), and
\* the effect runs loadUsers.
ToggleInactive ==
    /\ usersPage.pc = "open"
    /\ LoadUsers([usersPage EXCEPT !.showInactive = ~@])

\* The role select: setSelectedRole(e.target.value), and the effect runs
\* loadUsers.
SelectRole ==
    /\ usersPage.pc = "open"
    /\ \E role \in RoleOptions \ {usersPage.selectedRole} :
            LoadUsers([usersPage EXCEPT !.selectedRole = role])

UsersDispatch == \E r \in Reqs, o \in UsersOutcomes : Transport(r, o)

\* await api.get(...) settles and loadUsers goes on.
UsersResume ==
    \E r \in Reqs :
        /\ usersPage.pc = "open"
        /\ reqs[r].pc = "done"
        /\ reqs[r].caller = "loadUsers"
        /\ usersPage' = Loaded(usersPage, reqs[r].result)
        /\ Set(r, Idle)
        /\ SetTwin(r, Idle)
        /\ UNCHANGED <<now, counters, env, helpers, twinEvents, guard,
                       navbar, prepared, userForm>>

InitUsers ==
    /\ Init
    /\ hasWindow
    /\ ~debugEnabled
    /\ ~development

NextUsers ==
    \/ OpenUsers
    \/ ToggleInactive
    \/ SelectRole
    \/ Stamp
    \/ UsersDispatch
    \/ Succeed
    \/ Fail
    \/ Continue
    \/ UsersResume
    \/ Tick

SpecUsers == InitUsers /\ [][NextUsers]_vars

-----------------------------------------------------------------------------
\* components/users/UserForm in edit mode: the availability marks of
\* user_name and email, their debounce timers and their requests.

FormFields == {"user_name", "email"}

\* The user being edited, and what may be typed into the two inputs.
OriginalUser == [user_name |-> <<"a", "n", "a">>, email |-> <<"a", "@", "x">>]
Typed(f) ==
    IF f = "user_name"
    THEN {<<"a", "n", "a">>, <<"e", "v", "a">>, <<"e">>}
    ELSE {<<"a", "@", "x">>, <<"e", "@", "x">>, <<"e">>}

\* !username || username.length < 3;  !email || !email.includes('@')
TooShortToCheck(f, v) ==
    IF f = "user_name" THEN Len(v) < 3
    ELSE v = <<>> \/ \A i \in 1..Len(v) : v[i] # "@"

CheckCaller(f) == IF f = "user_name" THEN "checkUsername" ELSE "checkEmail"
FieldOf(c) == IF c = "checkUsername" THEN "user_name" ELSE "email"

\* What the availability endpoints may answer.
FormOutcomes ==
    {Outcome("response", 200, Body("ok", "available"), ""),
     Outcome("response", 200, Body("ok", "taken"), ""),
     Outcome("response", 200, Body("ok", Undefined), ""),
     Outcome("response", 500, NoBody, "")}

\* useState: the inputs hold the user's values, both marks are null, nothing
\* is being checked and no timer is armed.
UserFormOpen ==
    [pc |-> "open", value |-> OriginalUser,
     available |-> [f \in FormFields |-> Null],
     checking |-> [f \in FormFields |-> FALSE],
     timer |-> [f \in FormFields |-> {}]]

\* The edit-mode effect: a field equal to the user's original value is
\* marked available.
MarkedUnchanged(form) ==
    [form EXCEPT !.available =
        [f \in FormFields |->
            IF form.value[f] = OriginalUser[f] THEN "true"
            ELSE form.available[f]]]

\* The debounce effect of field f: the cleanup clears the timer of the
\* previous value, a new one is armed with the value just rendered.
Debounced(form, f) == [form EXCEPT !.timer[f] = {form.value[f]}]

\* checkUsernameAvailability / checkEmailAvailability after the await:
\* response.data.data.available, or null from the catch block; isChecking
\* is reset.
Checked(form, f, res, asked) ==
    [form EXCEPT
        !.checking[f] = FALSE,
        !.available[f] =
            IF res.kind = "thrown" THEN Null
            ELSE IF The(res.body).kind # "object" THEN Null
            ELSE IF The(res.body).data = "available" THEN "true"
            ELSE IF The(res.body).data = "taken" THEN "false"
            ELSE Null]

\* The form is opened on a user: the edit-mode effect and both debounce
\* effects run after the first render.
OpenForm ==
    /\ userForm = UserFormClosed
    /\ userForm' = Debounced(Debounced(MarkedUnchanged(UserFormOpen),
                                       "user_name"), "email")
    /\ UNCHANGED <<reqs, now, counters, env, helpers, twin, twinEvents,
                   guard, navbar, prepared, usersPage>>

\* handleChange on the input of field f, then the effects that depend on it.
EditField ==
    /\ userForm.pc = "open"
    /\ \E f \in FormFields : \E v \in Typed(f) \ {userForm.value[f]} :
            userForm' = Debounced(
                            MarkedUnchanged([userForm EXCEPT !.value[f] = v]),
                            f)
    /\ UNCHANGED <<reqs, now, counters, env, helpers, twin, twinEvents,
                   guard, navbar, prepared, usersPage>>

\* The debounce timer of field f fires with the value it closed over, and the
\* check returns before any request: too short to check, or unchanged.
CheckLocally ==
    /\ userForm.pc = "open"
    /\ \E f \in FormFields :
        /\ Has(userForm.timer[f])
        /\ LET v == The(userForm.timer[f])
           IN /\ TooShortToCheck(f, v) \/ v = OriginalUser[f]
              /\ userForm' =
                    [userForm EXCEPT
                        !.timer[f] = {},
                        !.available[f] =
                            IF v = <<>> THEN @
                            ELSE IF TooShortToCheck(f, v) THEN Null
                            ELSE "true"]
    /\ UNCHANGED <<reqs, now, counters, env, helpers, twin, twinEvents,
                   guard, navbar, prepared, usersPage>>

\* The debounce timer of field f fires and the check asks the backend.
CheckRemotely ==
    /\ userForm.pc = "open"
    /\ calls < MaxCalls
    /\ Busy # Reqs
    /\ \E f \in FormFields :
        /\ Has(userForm.timer[f])
        /\ LET v == The(userForm.timer[f])
               call == [Created(CheckCaller(f), NoMeta) EXCEPT !.asked = v]
           IN /\ ~TooShortToCheck(f, v)
              /\ v # OriginalUser[f]
              /\ Set(FreeSlot, call)
              /\ SetTwin(FreeSlot, call)
              /\ userForm' = [userForm EXCEPT !.timer[f] = {},
                                              !.checking[f] = TRUE]
    /\ calls' = calls + 1
    /\ UNCHANGED <<now, logoutEvents, received401, failedSessionCalls, env,
                   helpers, twinEvents, guard, navbar, prepared, usersPage>>

FormDispatch == \E r \in Reqs, o \in FormOutcomes : Transport(r, o)

\* The await of an availability request settles.
FormResume ==
    \E r \in Reqs :
        /\ userForm.pc = "open"
        /\ reqs[r].pc = "done"
        /\ reqs[r].caller \in {"checkUsername", "checkEmail"}
        /\ userForm' = Checked(userForm, FieldOf(reqs[r].caller),
                                reqs[r].result, reqs[r].asked)
        /\ Set(r, Idle)
        /\ SetTwin(r, Idle)
        /\ UNCHANGED <<now, counters, env, helpers, twinEvents, guard,
                       navbar, prepared, usersPage>>

NextForm ==
    \/ OpenForm
    \/ EditField
    \/ CheckLocally
    \/ CheckRemotely
    \/ Stamp
    \/ FormDispatch
    \/ Succeed
    \/ Fail
    \/ Continue
    \/ FormResume

SpecForm == InitUsers /\ [][NextForm]_vars

-----------------------------------------------------------------------------
\* AuthenticatedNavbar: the logout button.

\* Variant: the catch block logs the error and stays on the page.
LoggedOutOnSuccessOnly(n, res) ==
    [n EXCEPT !.pc = "left", !.seen = res,
              !.location = IF res.kind = "thrown" THEN @ ELSE "/"]

\* handleLogout after its await: window.location.href = '/' in the try block
\* and in the catch block.
LoggedOut(n, res) ==
    [n EXCEPT !.pc = "left", !.seen = res, !.location = "/"]

\* onClick={handleLogout}, the button enabled: setIsLoggingOut(true) and
\* authService.logout() posts to API_ENDPOINTS.auth.logout.
LogoutClick ==
    /\ navbar.pc = "shown"
    /\ ~navbar.isLoggingOut
    /\ calls < MaxCalls
    /\ Busy = {}
    /\ Set(FreeSlot, Created("logout", NoMeta))
    /\ SetTwin(FreeSlot, Created("logout", NoMeta))
    /\ calls' = calls + 1
    /\ navbar' = [navbar EXCEPT !.pc = "awaiting", !.isLoggingOut = TRUE]
    /\ UNCHANGED <<now, logoutEvents, received401, failedSessionCalls, env,
                   helpers, twinEvents, guard, prepared, usersPage, userForm>>

\* await authService.logout() settles and handleLogout goes on.
LogoutResume ==
    \E r \in Reqs :
        /\ navbar.pc = "awaiting"
        /\ reqs[r].pc = "done"
        /\ reqs[r].caller = "logout"
        /\ navbar' = LoggedOut(navbar, reqs[r].result)
        /\ Set(r, Idle)
        /\ SetTwin(r, Idle)
        /\ UNCHANGED <<now, counters, env, helpers, twinEvents, guard,
                       prepared, usersPage, userForm>>

NextNavbar ==
    \/ LogoutClick
    \/ Stamp
    \/ Dispatch
    \/ Succeed
    \/ Fail
    \/ Continue
    \/ LogoutResume
    \/ Tick

\* Once the button is pressed the request goes through the chain and
\* settles, and the continuation of the await runs.
NavbarFairness ==
    /\ WF_vars(Stamp)
    /\ WF_vars(Dispatch)
    /\ WF_vars(Succeed)
    /\ WF_vars(Fail)
    /\ WF_vars(Continue)
    /\ WF_vars(LogoutResume)

SpecNavbar == InitBrowser /\ [][NextNavbar]_vars /\ NavbarFairness

-----------------------------------------------------------------------------
\* Calls whose response went through the success handler.
Completed == {r \in Reqs : Has(reqs[r].resolved) /\ Has(reqs[r].completedAt)}

\* The metadata record of call r when the success handler started, and after.
Before(r) == The(reqs[r].beforeMerge)
After(r) == The(reqs[r].config.metadata)

Dispatched == {r \in Reqs : Has(reqs[r].stampedAt)}

\* C12: the request interceptor only attaches metadata.startTime = now():
\* method and URL are as the caller gave them, and every other metadata field
\* the caller attached is still in the descriptor, up to and including the
\* metrics record after completion.
C12_OnlyStartTimeAttached ==
    \A r \in Dispatched :
        /\ reqs[r].config.method = Method(reqs[r].caller)
        /\ reqs[r].config.url = Url(reqs[r].caller)
        /\ Has(reqs[r].config.metadata)
        /\ Has(reqs[r].given) =>
                After(r).customField = The(reqs[r].given).customField

Stepped == {r \in Reqs : reqs'[r].pc # reqs[r].pc}

\* After the step, every completed request's duration is its own completion
\* time minus its own stamp, and the step left the descriptor of every call
\* it did not act on as it was.
C14_Step ==
    /\ \A r \in Reqs :
            (Has(reqs'[r].resolved) /\ Has(reqs'[r].completedAt)) =>
                /\ {The(reqs'[r].config.metadata).startTime} = reqs'[r].stampedAt
                /\ The(reqs'[r].measured)
                        = The(reqs'[r].completedAt) - The(reqs'[r].stampedAt)
    /\ \A r \in Reqs \ Stepped : reqs'[r].config = reqs[r].config
    /\ \A r \in Stepped, q \in Stepped : r = q

\* C14: for concurrently in-flight requests and any interleaving of their
\* dispatches and completions, each request's duration is computed from that
\* request's own stamped startTime, and stamping or completing one request
\* never changes the metadata of another request.
C14_OwnMetadata == [][C14_Step]_vars

\* Two requests in flight together, stamped at different times, both
\* completed: each has the duration counted from its own stamp.
C14_Witness ==
    /\ {1, 2} \subseteq Completed
    /\ reqs[1].stampedAt = {0}
    /\ reqs[2].stampedAt = {1}
    /\ reqs[1].completedAt = {1}
    /\ reqs[2].completedAt = {1}
    /\ reqs[1].measured = {1}
    /\ reqs[2].measured = {0}
    /\ reqs[1].pc = "resolved"
    /\ reqs[2].pc = "resolved"

\* Calls whose handler chain has ended.
Ended == {r \in Reqs : reqs[r].pc \in {"resolved", "rejected", "done"}}

\* C15: every call through api.* causes at most one transport dispatch and
\* settles exactly once: a call whose chain has ended was resolved or
\* rejected, never both and never twice; a call that failed was rejected
\* with the outcome of its only dispatch, never resolved, and a caller that
\* does not catch receives that rejection.
C15_OneDispatchOneSettle ==
    \A r \in Reqs :
        /\ reqs[r].sent <= 1
        /\ reqs[r].settles <= 1
        /\ reqs[r].settles = 1 <=> r \in Ended
        /\ r \in Ended => (Has(reqs[r].resolved) <=> ~Has(reqs[r].rejected))
        /\ (r \in Ended /\ Has(reqs[r].raised)) =>
                /\ Has(reqs[r].rejected)
                /\ ~Has(reqs[r].response)
                /\ reqs[r].sent = (IF The(reqs[r].raised).request THEN 1 ELSE 0)
        /\ (reqs[r].pc = "done" /\ Has(reqs[r].rejected)
                /\ reqs[r].caller \in {"api", "login"}) =>
                reqs[r].result = Thrown(The(reqs[r].rejected))

\* A direct api call answered 500 was rejected to its caller after its one
\* dispatch.
C15_Witness ==
    \E r \in Reqs :
        /\ reqs[r].pc = "done"
        /\ reqs[r].caller = "api"
        /\ reqs[r].sent = 1
        /\ reqs[r].settles = 1
        /\ Has(reqs[r].rejected)
        /\ The(reqs[r].rejected).status = {500}
        /\ reqs[r].result = Thrown(The(reqs[r].rejected))

\* What a call shows to its caller and to the page: everything but the console.
Observable(req) == [req EXCEPT !.console = {}]

\* C16: debug logging never affects control flow or results. The same calls
\* with the same outcomes, run once with DEBUG_CONFIG.enabled as it is and
\* once with it negated, are at every moment at the same point of the chain
\* with the same descriptor, the same resolved or rejected value, the same
\* result for the caller and the same 'auth:logout' events emitted.
C16_DebugIndependent ==
    /\ \A r \in Reqs : Observable(twin[r]) = Observable(reqs[r])
    /\ twinEvents = logoutEvents

\* A 401 was rejected to the caller and announced once in both runs, and only
\* one of the two runs logged the error group.
C16_Witness ==
    \E r \in Reqs :
        /\ hasWindow
        /\ reqs[r].pc = "done"
        /\ Has(reqs[r].rejected)
        /\ The(reqs[r].rejected).status = {401}
        /\ reqs[r].caller = "api"
        /\ logoutEvents = 1
        /\ twinEvents = 1
        /\ twin[r].result = reqs[r].result
        /\ twin[r].console # reqs[r].console
        /\ "group:API Error" \in (twin[r].console \cup reqs[r].console)

\* C18: AuthGuard renders the protected children only in states where
\* authState is 'authenticated' and user is set, and that state is reached
\* only after a checkAuth call resolved with authenticated = true and a user;
\* while checking, unauthenticated or in error the children are never rendered.
C18_ChildrenOnlyWhenAuthenticated ==
    /\ Rendered(guard) = "children"
            <=> (guard.authState = "authenticated" /\ guard.user = "user")
    /\ guard.authState = "authenticated" =>
            /\ guard.user = "user"
            /\ guard.pc = "settled"
            /\ guard.seen = ReturnedPayload("authenticated")
            /\ Has(guard.answered)
            /\ validateStatus(The(guard.answered).status)
            /\ The(guard.answered).data.data = "authenticated"
    /\ guard.pc \in {"unmounted", "awaiting"} => Rendered(guard) = "loading"
    /\ guard.user # Null => guard.authState = "authenticated"

\* The guard renders the children after /auth/check answered 200 with
\* { authenticated: true, user }.
C18_Witness ==
    /\ Rendered(guard) = "children"
    /\ guard.seen = ReturnedPayload("authenticated")
    /\ The(guard.answered).status = 200
    /\ ~Has(guard.timer)

\* The check has ended and its request failed without a response or with a
\* server error status.
CheckFailed ==
    /\ guard.pc \in {"settled", "left"}
    /\ Has(guard.failure)
    /\ \/ The(guard.failure).isNetworkError = "true"
       \/ The(guard.failure).status = {500}

\* C19: if the backend authentication check fails with a network or server
\* error, AuthGuard's state becomes 'error' (the error screen with the retry
\* action is shown) and the redirect is scheduled after the 2000 ms delay.
C19_ErrorStateOnFailure ==
    CheckFailed =>
        /\ guard.authState = "error"
        /\ Rendered(guard) = "ErrorScreen"
        /\ guard.scheduled = {ErrorDelay}

\* Lookups that have returned or thrown, and the status the backend answered
\* to a lookup, if it answered with an error status.
LookupsDone == {r \in Reqs : reqs[r].pc = "done" /\ reqs[r].caller \in CitizenLookups}
AnsweredStatus(r) ==
    IF Has(reqs[r].raised) /\ Has(The(reqs[r].raised).response)
    THEN {The(The(reqs[r].raised).response).status}
    ELSE {}

\* C20: getCitizenByIdentification, getCitizenByEmail and
\* getCitizenByRazonSocial resolve to null whenever the backend answers 404 to
\* the lookup made through the shared client; they reject only for other
\* failures.
C20_NotFoundIsNull ==
    \A r \in LookupsDone :
        /\ AnsweredStatus(r) = {404} => reqs[r].result = ReturnedNull
        /\ reqs[r].result.kind = "thrown" =>
                (Has(reqs[r].rejected) /\ AnsweredStatus(r) # {404})

\* CRUD calls that threw to their caller, and the message the backend sent
\* with its error response, if it sent one.
CrudThrown ==
    {r \in Reqs : /\ reqs[r].pc = "done"
                  /\ reqs[r].caller \in CitizenCrud
                  /\ reqs[r].result.kind = "thrown"}
BackendMessage(r) ==
    IF Has(reqs[r].raised) /\ Has(The(reqs[r].raised).response)
    THEN BodyMessage(The(The(reqs[r].raised).response).data)
    ELSE Undefined

\* C21: when a citizenService CRUD call fails with a backend response that
\* carries a message, the Error thrown to the caller carries that message;
\* the 'could not connect to the server' message is produced only when no
\* response was received.
C21_BackendMessageThrown ==
    \A r \in CrudThrown :
        /\ Truthy(BackendMessage(r)) =>
                The(reqs[r].result.error).message = BackendMessage(r)
        /\ The(reqs[r].result.error).message = ConnectMessage =>
                AnsweredStatus(r) = {}

\* The guard has let the user in, or has sent the browser to redirectTo.
GuardDecided == Rendered(guard) = "children" \/ guard.redirected

\* A redirect was issued by the timer of the state the guard was in: 100 ms
\* for unauthenticated, 2000 ms for error; never from another state.
RedirectByDelay ==
    guard.redirected =>
        \/ guard.authState = "unauthenticated"
                /\ guard.scheduled = {UnauthenticatedDelay}
        \/ guard.authState = "error" /\ guard.scheduled = {ErrorDelay}

\* C22: under fairness (the checkAuth request settles, armed timers fire) a
\* mounted AuthGuard eventually renders the protected children or issues the
\* redirect, after the delay of the state it was in, and it never stays in
\* 'checking' or 'unauthenticated' forever. The retry button is pressed
\* finitely often.
C22_GuardDecides ==
    /\ <>GuardDecided
    /\ []RedirectByDelay
    /\ [](guard.authState \in {"checking", "unauthenticated"}
            => <>GuardDecided)

\* The browser was redirected from the error screen, by the 2000 ms timer,
\* after a retry.
C22_Witness ==
    /\ guard.redirected
    /\ guard.authState = "error"
    /\ guard.scheduled = {ErrorDelay}
    /\ calls = 2

\* C23: once handleLogout has started, under fairness the browser is
\* eventually redirected to '/', both when authService.logout resolves and
\* when it rejects (API, network or configuration error): a logout in
\* progress never stays on the authenticated page, and the page is left only
\* through a pressed logout button.
C23_LogoutRedirects ==
    /\ [](navbar.isLoggingOut => <>(navbar.location = "/"))
    /\ [](navbar.pc = "left" => navbar.location = "/")
    /\ [](navbar.location = "/" => (navbar.isLoggingOut /\ navbar.pc = "left"))

\* The logout request got no response, authService.logout rethrew the
\* network error, and the browser is on '/'.
C23_Witness ==
    /\ navbar.location = "/"
    /\ navbar.seen.kind = "thrown"
    /\ The(navbar.seen.error).isNetworkError = "true"
    /\ failedSessionCalls = 1

\* C24: prepareCitizenData: for every optional field whose value is an empty
\* or whitespace-only string, the payload carries null for that field; other
\* string fields are only trimmed.
C24_EmptyOptionalIsNull ==
    prepared.called =>
        \A key \in DOMAIN prepared.input :
            LET value == prepared.input[key]
                sent == prepared.output[key]
            IN value.type = "string" =>
                IF isOptionalField(key) /\ Trim(value.chars) = <<>>
                THEN sent = NullValue
                ELSE sent = Str(Trim(value.chars))

\* C25: loadUsers sends include_inactive=true exactly when the 'Incluir
\* inactivos' toggle (showInactive) is on, and sends role_id exactly when a
\* role other than 'all' is selected.
C25_QueryFollowsFilters ==
    usersPage.pc = "open" =>
        /\ (<<"include_inactive", "true">> \in usersPage.params)
                <=> usersPage.showInactive
        /\ \A role \in RoleOptions :
                (<<"role_id", role>> \in usersPage.params)
                    <=> (role # "all" /\ role = usersPage.selectedRole)

\* A debounce timer of field f is armed or an availability request for it
\* has not been answered to the form yet.
PendingCheck(f) ==
    \/ Has(userForm.timer[f])
    \/ \E r \in Reqs : reqs[r].pc # "idle" /\ reqs[r].caller = CheckCaller(f)

\* C26: UserForm in edit mode: whenever the form's current user_name equals
\* the edited user's original user_name and no debounce timer or availability
\* request is pending, usernameAvailable is true (likewise email and
\* emailAvailable), for every interleaving of edits, timers and responses.
C26_UnchangedIsAvailable ==
    userForm.pc = "open" =>
        \A f \in FormFields :
            (userForm.value[f] = OriginalUser[f] /\ ~PendingCheck(f))
                => userForm.available[f] = "true"

====
